---- MODULE Spec2Model ----
(***************************************************************************)
(* State-machine model of the Streamlit front-ends of FITSTIC_UI:          *)
(*   pag/penguins.py, pag/titanic.py, pages/diabetes.py  (the three apps)  *)
(*   app.py                                              (pipeline script) *)
(* A process serves one script.  Every user interaction makes Streamlit    *)
(* execute the script's main() again from the top; one execution is a      *)
(* "run".  The model artifact on disk and the trained model's answers are  *)
(* the environment.                                                        *)
(*                                                                         *)
(* Encodings.  Python None is the empty sequence and a present value v is  *)
(* <<v>>.  Floats are scaled integers: BMI in tenths, the pedigree         *)
(* function, bill sizes and fares in hundredths,                           *)
(* probabilities in 1/10000.  The page is the sequence of elements the run *)
(* has rendered so far, each [kind, text, num].                            *)
(***************************************************************************)
EXTENDS Integers, Sequences, FiniteSets

VARIABLES
    app,            \* the script this process serves
    artifact,       \* TRUE iff the model file exists and deserializes
    pc,             \* position of the current run inside main()
    model,          \* main()'s local `model`
    input_data,     \* main()'s local `input_data`
    clicked,        \* what st.button(...) returned in this run
    prediction,     \* result of make_prediction: label
    probability,    \* result of make_prediction: probability pair
    screen,         \* elements rendered by the current run, in order
    predictCalls,   \* invocations of model.predict in the current run
    predictArg,     \* the DataFrame handed to model.predict in this run
    raised,         \* exception that escaped main() in this run, or None
    pressed,        \* the interaction that started this run was a button press
    outcome,        \* what the trained model did when this run called it
    loadAttempts,   \* calls of joblib.load since the process started
    loads,          \* successful deserializations since the process started
    loadFailedEver, \* some load attempt of this process has failed
    prevInferenceFailed \* the previous run caught an inference exception

vars == <<app, artifact, pc, model, input_data, clicked, prediction,
          probability, screen, predictCalls, predictArg, raised,
          pressed, outcome, loadAttempts, loads, loadFailedEver,
          prevInferenceFailed>>

\* Number of runs of main() explored per process.
MaxRuns == 3

None == <<>>

ThreeApps == {"penguins", "titanic", "diabetes"}

Apps == ThreeApps \cup {"app"}

El(kind, text, num) == [kind |-> kind, text |-> text, num |-> num]

(***************************************************************************)
(* Model loader                                                            *)
(***************************************************************************)

\* load_model(): joblib.load inside try/except Exception.  `avail` is the
\* state of the artifact, `n` the identity of the object a successful
\* deserialization creates.
load_model(avail, n) ==
    IF avail
    THEN [model |-> <<n>>, shown |-> <<>>]
    ELSE [model |-> None, shown |-> <<El("error", "Error loading model", 0)>>]

ModelMissingNever(m) == FALSE

\* `if not model: return` in main().
ModelMissing(m) == m = None

setup_page(a) ==
    CASE a = "penguins" -> <<El("title", "Palmer Penguins Species Predictor", 0),
                             El("markdown", "intro", 0)>>
      [] a = "titanic"  -> <<El("title", "Titanic Survival Predictor", 0),
                             El("markdown", "intro", 0)>>
      [] a = "diabetes" -> <<El("title", "Diabetes Risk Predictor", 0),
                             El("markdown", "intro", 0)>>

\* The `with st.expander(...)` block of main().
HowToUse == <<El("expander", "How to Use", 0)>>

\* The trailing st.sidebar.markdown(...) of main().
Sidebar == <<El("sidebar", "About", 0)>>

(***************************************************************************)
(* Input collectors                                                        *)
(***************************************************************************)

Lower(s) ==
    CASE s = "Male"   -> "male"
      [] s = "Female" -> "female"
      [] OTHER        -> s

Clamp(lo, hi, v) == IF v < lo THEN lo ELSE IF v > hi THEN hi ELSE v

number_input_unchecked(lo, hi, v) == v

\* st.number_input(min_value=lo, max_value=hi): the control holds the
\* value v the user entered, kept inside [lo, hi].
number_input(lo, hi, v) == Clamp(lo, hi, v)

\* st.slider(min_value=lo, max_value=hi, step=step): the control holds the
\* step of the scale nearest to where the user dragged the handle.
slider(lo, hi, step, v) ==
    LET w == Clamp(lo, hi, v)
    IN  Clamp(lo, hi, lo + step * ((w - lo + step \div 2) \div step))

\* Values the controls can hold.  The user's entries explored are range
\* ends, defaults, values next to each threshold of the annotation rules
\* and entries outside the range or off the scale of the control.
PenguinControls ==
    [bill_length : {number_input(3000, 6000, v) : v \in {2999, 4500, 6001}},
     bill_depth : {number_input(1300, 2200, v) : v \in {1299, 2201}},
     flipper_length : {slider(170, 240, 1, v) : v \in {169, 241}},
     body_mass : {slider(2700, 6300, 100, v) : v \in {2600, 4049, 6400}},
     sex : {"Male", "Female"},
     island : {"Torgersen", "Biscoe", "Dream"}]

get_user_input(c) ==
    [bill_length_mm |-> c.bill_length,
     bill_depth_mm |-> c.bill_depth,
     flipper_length_mm |-> c.flipper_length,
     body_mass_g |-> c.body_mass,
     sex |-> Lower(c.sex),
     island |-> c.island]

TitanicControls ==
    [pclass : {1, 2, 3},
     sex : {"male", "female"},
     age : {number_input(0, 100, v) : v \in {-1, 10, 17, 18, 101}},
     embarked : {"C", "S"},
     sibsp : {number_input(0, 8, v) : v \in {0, 1, 9}},
     parch : {number_input(0, 6, v) : v \in {0, 4, 7}},
     fare : {slider(0, 60000, 50, v) : v \in {5010, 60020}}]

get_passenger_input(c) ==
    [Pclass |-> c.pclass,
     Sex |-> c.sex,
     Age |-> c.age,
     SibSp |-> c.sibsp,
     Parch |-> c.parch,
     Fare |-> c.fare,
     Embarked |-> c.embarked]

DiabetesControls ==
    [pregnancies : {number_input(0, 20, v) : v \in {25}},
     glucose : {slider(0, 200, 1, v) : v \in {99, 100, 139, 140, 150, 201}},
     blood_pressure : {slider(0, 200, 1, v) : v \in {70, 89, 90, 250}},
     skin_thickness : {slider(0, 100, 1, v) : v \in {-3}},
     insulin : {slider(0, 846, 1, v) : v \in {900}},
     bmi : {number_input(0, 700, v) : v \in {-5, 250, 299, 300, 320}},
     diabetes_pedigree : {number_input(0, 250, v) : v \in {79, 80, 300}},
     age : {number_input(0, 120, v) : v \in {44, 45, 50, 121}}]

get_patient_input(c) ==
    [Pregnancies |-> c.pregnancies,
     Glucose |-> c.glucose,
     BloodPressure |-> c.blood_pressure,
     SkinThickness |-> c.skin_thickness,
     Insulin |-> c.insulin,
     BMI |-> c.bmi,
     DiabetesPedigreeFunction |-> c.diabetes_pedigree,
     Age |-> c.age]

\* The records main() can obtain from its app's input collector.
Collected(a) ==
    CASE a = "penguins" -> {get_user_input(c) : c \in PenguinControls}
      [] a = "titanic"  -> {get_passenger_input(c) : c \in TitanicControls}
      [] a = "diabetes" -> {get_patient_input(c) : c \in DiabetesControls}

\* Elements rendered by the input collector, then the predict button.
Controls(a) ==
    <<El("columns", "input controls", 0),
      El("button", CASE a = "penguins" -> "Predict Species"
                     [] a = "titanic"  -> "Predict Survival"
                     [] a = "diabetes" -> "Analyze Risk", 0)>>

(***************************************************************************)
(* Trained model (environment)                                             *)
(***************************************************************************)

Species == {"Adelie", "Gentoo", "Chinstrap"}

\* What one call of model.predict / model.predict_proba on a one-row frame
\* can do: raise, or return a label (inside or outside the known output
\* domain) and a probability pair.
ModelOutcomes(a) ==
    IF a = "penguins"
    THEN [predict_raises : {TRUE}, label : {""}, proba_raises : {FALSE},
          proba : {<<0, 0>>}]
         \cup [predict_raises : {FALSE}, label : Species \cup {"Emperor", ""},
               proba_raises : {FALSE}, proba : {<<0, 0>>}]
    ELSE [predict_raises : {TRUE}, label : {0}, proba_raises : {FALSE},
          proba : {<<0, 0>>}]
         \cup [predict_raises : {FALSE}, label : {0}, proba_raises : {TRUE},
               proba : {<<0, 0>>}]
         \cup [predict_raises : {FALSE}, label : {0, 1, 2},
               proba_raises : {FALSE},
               proba : {<<7500, 2500>>, <<1234, 8766>>}]

\* pd.DataFrame([input_data]): a frame is the sequence of its rows.
DataFrame(rows) == rows

\* model.predict(df): one label per row of the frame.
predict(df, o) == [i \in 1..Len(df) |-> o.label]

\* model.predict_proba(df): one probability pair per row of the frame.
predict_proba(df, o) == [i \in 1..Len(df) |-> o.proba]

(***************************************************************************)
(* Predictor                                                               *)
(***************************************************************************)

InferenceError == <<El("error", "Error making prediction", 0)>>

make_prediction_silent(a, m, data, o) ==
    LET df == DataFrame(<<data>>)
    IN  IF m = None \/ o.predict_raises \/ (a # "penguins" /\ o.proba_raises)
        THEN [prediction |-> None, probability |-> None, shown |-> <<>>,
              calls |-> IF m = None THEN 0 ELSE 1, arg |-> df]
        ELSE [prediction |-> <<predict(df, o)[1]>>,
              probability |-> IF a = "penguins" THEN None
                              ELSE <<predict_proba(df, o)[1]>>,
              shown |-> <<>>, calls |-> 1, arg |-> df]

make_prediction_partial(a, m, data, o) ==
    LET df == DataFrame(<<data>>)
    IN  IF m = None \/ o.predict_raises
        THEN [prediction |-> None, probability |-> None,
              shown |-> InferenceError,
              calls |-> IF m = None THEN 0 ELSE 1, arg |-> df]
        ELSE IF a # "penguins" /\ o.proba_raises
        THEN [prediction |-> <<predict(df, o)[1]>>, probability |-> None,
              shown |-> InferenceError, calls |-> 1, arg |-> df]
        ELSE [prediction |-> <<predict(df, o)[1]>>,
              probability |-> IF a = "penguins" THEN None
                              ELSE <<predict_proba(df, o)[1]>>,
              shown |-> <<>>, calls |-> 1, arg |-> df]

make_prediction_sticky(a, m, data, o) ==
    IF prevInferenceFailed
    THEN [prediction |-> None, probability |-> None,
          shown |-> InferenceError, calls |-> 0, arg |-> <<>>]
    ELSE LET df == DataFrame(<<data>>)
         IN  IF m = None \/ o.predict_raises \/ (a # "penguins" /\ o.proba_raises)
             THEN [prediction |-> None, probability |-> None,
                   shown |-> InferenceError,
                   calls |-> IF m = None THEN 0 ELSE 1, arg |-> df]
             ELSE [prediction |-> <<predict(df, o)[1]>>,
                   probability |-> IF a = "penguins" THEN None
                                   ELSE <<predict_proba(df, o)[1]>>,
                   shown |-> <<>>, calls |-> 1, arg |-> df]

\* make_prediction(model, input_data) of the three apps.  Calling predict
\* on a None model raises AttributeError, which the same except catches.
\* penguins returns a label only; titanic and diabetes return the pair
\* (prediction[0], predict_proba(df)[0]) or (None, None).
make_prediction(a, m, data, o) ==
    LET df == DataFrame(<<data>>)
    IN  IF m = None \/ o.predict_raises \/ (a # "penguins" /\ o.proba_raises)
        THEN [prediction |-> None, probability |-> None,
              shown |-> InferenceError,
              calls |-> IF m = None THEN 0 ELSE 1, arg |-> df]
        ELSE [prediction |-> <<predict(df, o)[1]>>,
              probability |-> IF a = "penguins" THEN None
                              ELSE <<predict_proba(df, o)[1]>>,
              shown |-> <<>>, calls |-> 1, arg |-> df]

(***************************************************************************)
(* Result renderers                                                        *)
(***************************************************************************)

\* f"{p * 100:.1f}%": the probability as tenths of a percent.
Percent1(p) == (p + 5) \div 10

ResultsHeader(title) == <<El("markdown", "---", 0), El("subheader", title, 0)>>

\* Python truthiness of a label: None and the empty string are false.
Truthy(p) == p # None /\ p[1] # ""

\* species_info of penguins.display_results: the keys of the dictionary.
species_info == {"Adelie", "Gentoo", "Chinstrap"}

\* penguins.display_results(prediction).
penguins_display_results(p) ==
    [raised |-> None,
     shown |->
        ResultsHeader("Prediction Results")
        \o (IF Truthy(p)
            THEN <<El("success", p[1], 0)>>
                 \o (IF p[1] \in species_info
                     THEN <<El("info", p[1], 0), El("fun_fact", p[1], 0)>>
                     ELSE <<>>)
            ELSE <<>>)]

\* class_risk of titanic.display_results.
class_risk ==
    [c \in {1, 2, 3} |->
        CASE c = 1 -> "Higher chance of survival in 1st class"
          [] c = 2 -> "Moderate chance of survival in 2nd class"
          [] c = 3 -> "Lower chance of survival in 3rd class"]

titanic_factors_teens(d) ==
    LET total_family == d.SibSp + d.Parch
    IN  <<class_risk[d.Pclass]>>
        \o (IF d.Sex = "female"
            THEN <<"Being female significantly increased survival chances">>
            ELSE <<"Being male significantly decreased survival chances">>)
        \o (IF d.Age < 13 THEN <<"Children had better survival chances">>
            ELSE <<>>)
        \o (IF total_family = 0
            THEN <<"Traveling alone affected survival chances">>
            ELSE IF total_family > 4
            THEN <<"Large family groups had more difficulty staying together">>
            ELSE <<>>)

\* The `factors` list built by titanic.display_results.
titanic_factors(d) ==
    LET total_family == d.SibSp + d.Parch
    IN  <<class_risk[d.Pclass]>>
        \o (IF d.Sex = "female"
            THEN <<"Being female significantly increased survival chances">>
            ELSE <<"Being male significantly decreased survival chances">>)
        \o (IF d.Age < 18 THEN <<"Children had better survival chances">>
            ELSE <<>>)
        \o (IF total_family = 0
            THEN <<"Traveling alone affected survival chances">>
            ELSE IF total_family > 4
            THEN <<"Large family groups had more difficulty staying together">>
            ELSE <<>>)

\* Each string of a list rendered as one element of the given kind.
Lines(kind, l) == [i \in 1..Len(l) |-> El(kind, l[i], 0)]

\* titanic.display_results(prediction, probability, input_data).
\* probability[1] on None is a TypeError, class_risk[...] on an unknown
\* class a KeyError; neither is caught.
titanic_display_results(p, pr, d) ==
    IF p = None
    THEN [raised |-> None, shown |-> ResultsHeader("Prediction Results")]
    ELSE IF pr = None
    THEN [raised |-> <<"TypeError">>,
          shown |-> ResultsHeader("Prediction Results")]
    ELSE LET head ==
                ResultsHeader("Prediction Results")
                \o <<IF p[1] = 1
                     THEN El("success", "### Predicted: SURVIVED", 0)
                     ELSE El("error", "### Predicted: DID NOT SURVIVE", 0),
                     El("metric", "Survival Probability", Percent1(pr[1][2])),
                     El("markdown", "### Key Factors Analysis", 0)>>
         IN  IF d.Pclass \notin DOMAIN class_risk
             THEN [raised |-> <<"KeyError">>, shown |-> head]
             ELSE [raised |-> None,
                   shown |-> head \o Lines("factor", titanic_factors(d))
                             \o <<El("markdown", "### Passenger Summary", 0)>>]

\* The annotation texts of assess_risk_factors, without their warning sign.
HighGlucose == "High glucose level indicates increased risk"

BorderlineGlucose == "Borderline glucose level"

Obesity == "BMI indicates obesity (BMI >= 30)"

Overweight == "BMI indicates overweight (BMI 25-29.9)"

ElevatedPressure == "Elevated blood pressure"

AgeRisk == "Age is a risk factor (>= 45 years)"

FamilyHistory == "Strong family history of diabetes"

assess_risk_factors_age_first(d) ==
    (IF d.Age >= 45 THEN <<AgeRisk>> ELSE <<>>)
    \o (IF d.Glucose >= 140 THEN <<HighGlucose>>
        ELSE IF d.Glucose >= 100 THEN <<BorderlineGlucose>> ELSE <<>>)
    \o (IF d.BMI >= 300 THEN <<Obesity>>
        ELSE IF d.BMI >= 250 THEN <<Overweight>> ELSE <<>>)
    \o (IF d.BloodPressure >= 90 THEN <<ElevatedPressure>> ELSE <<>>)
    \o (IF d.DiabetesPedigreeFunction >= 80 THEN <<FamilyHistory>> ELSE <<>>)

assess_risk_factors_chained(d) ==
    (IF d.Glucose >= 140 THEN <<HighGlucose>>
     ELSE IF d.Glucose >= 100 THEN <<BorderlineGlucose>> ELSE <<>>)
    \o (IF d.BMI >= 300 THEN <<Obesity>>
        ELSE IF d.BMI >= 250 THEN <<Overweight>> ELSE <<>>)
    \o (IF d.BloodPressure >= 90 THEN <<ElevatedPressure>>
        ELSE IF d.Age >= 45 THEN <<AgeRisk>> ELSE <<>>)
    \o (IF d.DiabetesPedigreeFunction >= 80 THEN <<FamilyHistory>> ELSE <<>>)

assess_risk_factors_strict(d) ==
    (IF d.Glucose > 140 THEN <<HighGlucose>>
     ELSE IF d.Glucose >= 100 THEN <<BorderlineGlucose>> ELSE <<>>)
    \o (IF d.BMI >= 300 THEN <<Obesity>>
        ELSE IF d.BMI >= 250 THEN <<Overweight>> ELSE <<>>)
    \o (IF d.BloodPressure >= 90 THEN <<ElevatedPressure>> ELSE <<>>)
    \o (IF d.Age >= 45 THEN <<AgeRisk>> ELSE <<>>)
    \o (IF d.DiabetesPedigreeFunction >= 80 THEN <<FamilyHistory>> ELSE <<>>)

\* diabetes.assess_risk_factors(input_data).  BMI is in tenths and the
\* pedigree function in hundredths, so 30 is 300, 25 is 250 and 0.8 is 80.
assess_risk_factors(d) ==
    (IF d.Glucose >= 140 THEN <<HighGlucose>>
     ELSE IF d.Glucose >= 100 THEN <<BorderlineGlucose>> ELSE <<>>)
    \o (IF d.BMI >= 300 THEN <<Obesity>>
        ELSE IF d.BMI >= 250 THEN <<Overweight>> ELSE <<>>)
    \o (IF d.BloodPressure >= 90 THEN <<ElevatedPressure>> ELSE <<>>)
    \o (IF d.Age >= 45 THEN <<AgeRisk>> ELSE <<>>)
    \o (IF d.DiabetesPedigreeFunction >= 80 THEN <<FamilyHistory>> ELSE <<>>)

\* diabetes.display_results(prediction, probability, input_data).
diabetes_display_results(p, pr, d) ==
    IF p = None
    THEN [raised |-> None, shown |-> ResultsHeader("Risk Assessment Results")]
    ELSE IF pr = None
    THEN [raised |-> <<"TypeError">>,
          shown |-> ResultsHeader("Risk Assessment Results")]
    ELSE LET risk_factors == assess_risk_factors(d)
         IN  [raised |-> None,
              shown |->
                ResultsHeader("Risk Assessment Results")
                \o <<IF p[1] = 1
                     THEN El("error", "### Higher Risk of Diabetes", 0)
                     ELSE El("success", "### Lower Risk of Diabetes", 0),
                     El("metric", "Risk Probability", Percent1(pr[1][2])),
                     El("markdown", "### Risk Factor Analysis", 0)>>
                \o (IF risk_factors # <<>>
                    THEN Lines("factor", risk_factors)
                    ELSE <<El("markdown", "No major risk factors identified", 0)>>)
                \o <<El("markdown", "### General Health Recommendations", 0),
                     El("info", "recommendations", 0)>>]

\* The display_results call of main(), by app.
display_results(a, p, pr, d) ==
    CASE a = "penguins" -> penguins_display_results(p)
      [] a = "titanic"  -> titanic_display_results(p, pr, d)
      [] a = "diabetes" -> diabetes_display_results(p, pr, d)

(***************************************************************************)
(* app.py: the pipeline script                                             *)
(***************************************************************************)

somma(l1, l2) == l1 + l2

\* `classes` of app.main().
classes == [r \in {0, 1} |-> IF r = 0 THEN "died" ELSE "survived"]

\* The one-row frame app.main() builds: Age from its number input, the
\* other columns fixed (Fare 7.8 in hundredths).
app_data(Age) ==
    [Pclass |-> 3, Sex |-> "female", Age |-> Age, SibSp |-> 0, Parch |-> 0,
     Fare |-> 780, Embarked |-> "Q"]

(***************************************************************************)
(* Runs of main()                                                          *)
(***************************************************************************)

Init ==
    /\ app \in Apps
    /\ artifact \in BOOLEAN
    /\ pc = "start"
    /\ model = None
    /\ input_data = None
    /\ clicked = FALSE
    /\ prediction = None
    /\ probability = None
    /\ screen = <<>>
    /\ predictCalls = 0
    /\ predictArg = <<>>
    /\ raised = None
    /\ pressed = FALSE
    /\ outcome = None
    /\ loadAttempts = 0
    /\ loads = 0
    /\ loadFailedEver = FALSE
    /\ prevInferenceFailed = FALSE

ButtonAlways(pending) == TRUE

\* `if st.button(...)`: True in the run that a press of the button started.
ButtonPressed(pending) == pending

\* main() of the three apps up to `if not model: return`.
Main_Load ==
    /\ pc = "start"
    /\ app \in ThreeApps
    /\ LET r == load_model(artifact, loads + 1)
       IN  /\ model' = r.model
           /\ loadAttempts' = loadAttempts + 1
           /\ loads' = IF r.model # None THEN loads + 1 ELSE loads
           /\ loadFailedEver' = (loadFailedEver \/ r.model = None)
           /\ IF ModelMissing(r.model)
              THEN /\ screen' = setup_page(app) \o r.shown
                   /\ pc' = "done"
              ELSE /\ screen' = setup_page(app) \o r.shown \o HowToUse
                   /\ pc' = "loaded"
    /\ UNCHANGED <<app, artifact, input_data, clicked, prediction, probability,
                   predictCalls, predictArg, raised, pressed, outcome,
                   prevInferenceFailed>>

\* main(): the input collector, then the predict button.  Without a press
\* the run ends with the sidebar text.
Main_Input ==
    /\ pc = "loaded"
    /\ app \in ThreeApps
    /\ \E d \in Collected(app) : input_data' = <<d>>
    /\ clicked' = ButtonPressed(pressed)
    /\ IF clicked'
       THEN /\ screen' = screen \o Controls(app)
            /\ pc' = "predict"
       ELSE /\ screen' = screen \o Controls(app) \o Sidebar
            /\ pc' = "done"
    /\ UNCHANGED <<app, artifact, model, prediction, probability, predictCalls,
                   predictArg, raised, pressed, outcome, loadAttempts, loads,
                   loadFailedEver, prevInferenceFailed>>

\* main(): make_prediction(model, input_data) in the button branch.
Main_Predict ==
    /\ pc = "predict"
    /\ app \in ThreeApps
    /\ \E o \in ModelOutcomes(app) :
         LET r == make_prediction(app, model, input_data[1], o)
         IN  /\ prediction' = r.prediction
             /\ probability' = r.probability
             /\ screen' = screen \o r.shown
             /\ predictCalls' = predictCalls + r.calls
             /\ predictArg' = r.arg
             /\ outcome' = <<o>>
    /\ pc' = "display"
    /\ UNCHANGED <<app, artifact, model, input_data, clicked, raised,
                   pressed, loadAttempts, loads, loadFailedEver,
                   prevInferenceFailed>>

\* main(): display_results(...) in the button branch, then the sidebar text.
Main_Display ==
    /\ pc = "display"
    /\ app \in ThreeApps
    /\ LET r == display_results(app, prediction, probability, input_data[1])
       IN  /\ raised' = r.raised
           /\ IF r.raised = None
              THEN /\ screen' = screen \o r.shown \o Sidebar
                   /\ pc' = "done"
              ELSE /\ screen' = screen \o r.shown
                   /\ pc' = "crashed"
    /\ UNCHANGED <<app, artifact, model, input_data, clicked, prediction,
                   probability, predictCalls, predictArg, pressed, outcome,
                   loadAttempts, loads, loadFailedEver, prevInferenceFailed>>

\* app.main(): title, text and the unguarded jbl.load.
App_Load ==
    /\ pc = "start"
    /\ app = "app"
    /\ loadAttempts' = loadAttempts + 1
    /\ screen' = <<El("title", "Pipeline streamlit", 0),
                   El("text", "proviamo questo front-end", 0)>>
    /\ IF artifact
       THEN /\ model' = <<loads + 1>>
            /\ loads' = loads + 1
            /\ raised' = None
            /\ pc' = "loaded"
            /\ UNCHANGED loadFailedEver
       ELSE /\ model' = None
            /\ loads' = loads
            /\ loadFailedEver' = TRUE
            /\ raised' = <<"LoadError">>
            /\ pc' = "crashed"
    /\ UNCHANGED <<app, artifact, input_data, clicked, prediction, probability,
                   predictCalls, predictArg, pressed, outcome,
                   prevInferenceFailed>>

\* app.main(): the Age input, the frame and the unguarded model.predict,
\* on every run.
App_Predict ==
    /\ pc = "loaded"
    /\ app = "app"
    /\ \E Age \in {0, 30}, o \in ModelOutcomes(app) :
         LET df == DataFrame(<<app_data(Age)>>)
         IN  /\ input_data' = <<app_data(Age)>>
             /\ predictCalls' = predictCalls + 1
             /\ predictArg' = df
             /\ outcome' = <<o>>
             /\ screen' = screen \o <<El("number_input", "inserisci gli anni", 0)>>
             /\ IF o.predict_raises
                THEN /\ prediction' = None
                     /\ raised' = <<"PredictError">>
                     /\ pc' = "crashed"
                ELSE /\ prediction' = <<predict(df, o)[1]>>
                     /\ raised' = None
                     /\ pc' = "display"
    /\ UNCHANGED <<app, artifact, model, clicked, probability, pressed,
                   loadAttempts, loads, loadFailedEver, prevInferenceFailed>>

\* app.main(): classes[res], the two sliders and the sum button.
App_Render ==
    /\ pc = "display"
    /\ app = "app"
    /\ IF prediction[1] \notin DOMAIN classes
       THEN /\ raised' = <<"KeyError">>
            /\ pc' = "crashed"
            /\ UNCHANGED <<screen, clicked>>
       ELSE \E num1 \in {2}, num2 \in {3, 100} :
              /\ raised' = None
              /\ clicked' = ButtonPressed(pressed)
              /\ screen' = screen
                    \o <<El("write", classes[prediction[1]], 0),
                         El("slider", "lato1", num1), El("slider", "lato2", num2),
                         El("button", "mostra risultato", 0)>>
                    \o (IF clicked'
                        THEN <<El("write", "la somma", somma(num1, num2))>>
                        ELSE <<>>)
              /\ pc' = "done"
    /\ UNCHANGED <<app, artifact, model, input_data, prediction, probability,
                   predictCalls, predictArg, pressed, outcome, loadAttempts,
                   loads, loadFailedEver, prevInferenceFailed>>

\* The last run put a button on the page.
ButtonRendered == \E i \in 1..Len(screen) : screen[i].kind = "button"

\* The last run caught an inference exception.
InferenceFailed == \E i \in 1..Len(screen) : screen[i] = InferenceError[1]

\* A user interaction: Streamlit executes main() again on an empty page.
\* The interaction is a press only if the page shows the button.
Rerun ==
    /\ pc \in {"done", "crashed"}
    /\ loadAttempts < MaxRuns
    /\ pressed' \in (IF ButtonRendered THEN BOOLEAN ELSE {FALSE})
    /\ outcome' = None
    /\ prevInferenceFailed' = InferenceFailed
    /\ pc' = "start"
    /\ model' = None
    /\ input_data' = None
    /\ clicked' = FALSE
    /\ prediction' = None
    /\ probability' = None
    /\ screen' = <<>>
    /\ predictCalls' = 0
    /\ predictArg' = <<>>
    /\ raised' = None
    /\ UNCHANGED <<app, artifact, loadAttempts, loads, loadFailedEver>>

\* Between two runs the artifact appears on disk or disappears from it.
ArtifactChange ==
    /\ pc \in {"done", "crashed"}
    /\ artifact' = ~artifact
    /\ UNCHANGED <<app, pc, model, input_data, clicked, prediction,
                   probability, screen, predictCalls, predictArg, raised,
                   pressed, outcome, loadAttempts, loads, loadFailedEver,
                   prevInferenceFailed>>

Next ==
    \/ Main_Load
    \/ Main_Input
    \/ Main_Predict
    \/ Main_Display
    \/ App_Load
    \/ App_Predict
    \/ App_Render
    \/ Rerun
    \/ ArtifactChange

Spec == Init /\ [][Next]_vars

(***************************************************************************)
(* Properties                                                              *)
(***************************************************************************)

Range(f) == {f[i] : i \in DOMAIN f}

\* Number of st.error elements on the page.
ErrorCount == Cardinality({i \in 1..Len(screen) : screen[i].kind = "error"})

\* The page shows an element of one of the given kinds.
Shows(kinds) == \E i \in 1..Len(screen) : screen[i].kind \in kinds

\* The texts of the annotation lines on the page, in page order.
FactorsShown ==
    LET f == SelectSeq(screen, LAMBDA e : e.kind = "factor")
    IN  [i \in 1..Len(f) |-> f[i].text]

\* The load of the current run has failed.
LoadFailedThisRun == app \in ThreeApps /\ pc # "start" /\ model = None

\* The trained model raised inside make_prediction in the current run.
InferenceRaised ==
    /\ app \in ThreeApps
    /\ outcome # None
    /\ (outcome[1].predict_raises \/ (app # "penguins" /\ outcome[1].proba_raises))

\* C1: in the three apps a run whose model load failed has ended, shows
\* exactly one error message, has called neither make_prediction nor
\* display_results and has rendered neither the input controls nor the
\* predict button.
C1_LoadFailureStops ==
    LoadFailedThisRun =>
        /\ pc = "done"
        /\ raised = None
        /\ ErrorCount = 1
        /\ screen = setup_page(app) \o <<El("error", "Error loading model", 0)>>
        /\ predictCalls = 0 /\ predictArg = <<>> /\ outcome = None
        /\ prediction = None /\ probability = None
        /\ input_data = None /\ ~clicked
        /\ ~Shows({"columns", "button", "subheader", "success", "metric",
                   "factor", "info", "fun_fact"})

C1_Witness ==
    /\ LoadFailedThisRun
    /\ pc = "done"
    /\ ErrorCount = 1
    /\ pressed

\* C2: the artifact is deserialized at most once per process, and every
\* run works with the handle that first load created.
C2_LoadedOnce ==
    /\ loads <= 1
    /\ (model # None => model = <<1>>)

\* C3: once a load attempt has failed, no later step of the process
\* attempts the load again or invokes model.predict.
C3_LoadFailureIsFinal ==
    [][(app \in ThreeApps /\ loadFailedEver) =>
            /\ loadAttempts' = loadAttempts
            /\ predictCalls' <= predictCalls]_vars

\* C4: in the three apps, when predict or predict_proba raises inside
\* make_prediction the exception does not leave main(): exactly one error
\* message is on the page, the result is null, and the finished page
\* shows no label, no probability and no annotation.
C4_InferenceFailureCaught ==
    InferenceRaised =>
        /\ pc \in {"display", "done"}
        /\ raised = None
        /\ prediction = None /\ probability = None
        /\ ErrorCount = 1
        /\ InferenceFailed
        /\ ~Shows({"success", "metric", "factor", "info", "fun_fact"})
        /\ (pc = "done" =>
              screen = setup_page(app) \o HowToUse \o Controls(app)
                       \o InferenceError
                       \o ResultsHeader(IF app = "diabetes"
                                        THEN "Risk Assessment Results"
                                        ELSE "Prediction Results")
                       \o Sidebar)

C4_Witness ==
    /\ InferenceRaised
    /\ app # "penguins"
    /\ ~outcome[1].predict_raises /\ outcome[1].proba_raises
    /\ pc = "done"

\* C5: a run in which the button is pressed after a run whose inference
\* raised invokes inference again, on the record collected in this run,
\* and its page shows this run's outcome only: the inference error is on
\* the page iff the model raised in this run, and a result iff it did not.
C5_RetryAfterInferenceFailure ==
    (app \in ThreeApps /\ prevInferenceFailed /\ clicked
        /\ pc \in {"display", "done", "crashed"}) =>
        /\ predictCalls = 1
        /\ outcome # None
        /\ predictArg = <<input_data[1]>>
        /\ (InferenceFailed <=> InferenceRaised)
        /\ (prediction = None <=> InferenceRaised)
        /\ (~InferenceRaised => prediction = <<outcome[1].label>>)
        /\ ErrorCount <= 1
        /\ (pc = "done" /\ app # "penguins" /\ ~InferenceRaised => Shows({"metric"}))

C5_Witness ==
    /\ app \in ThreeApps
    /\ prevInferenceFailed
    /\ clicked
    /\ pc = "done"
    /\ ~InferenceRaised
    /\ prediction # None
    /\ ~InferenceFailed

\* The diabetes record of the current run with another glucose value.
WithGlucose(g) == [input_data[1] EXCEPT !.Glucose = g]

\* A diabetes run has collected a record with Glucose 139 or 140.
GlucoseAtThreshold ==
    /\ app = "diabetes"
    /\ input_data # None
    /\ input_data[1].Glucose \in {139, 140}

\* C6 as stated: changing only Glucose from 139 to 140 adds the
\* high-glucose annotation and keeps every annotation of the Glucose=139
\* result.
C6_GlucoseMonotonic ==
    GlucoseAtThreshold =>
        LET lo == assess_risk_factors(WithGlucose(139))
            hi == assess_risk_factors(WithGlucose(140))
        IN  /\ HighGlucose \in Range(hi)
            /\ HighGlucose \notin Range(lo)
            /\ Range(lo) \subseteq Range(hi)

\* C6 amended: changing only Glucose from 139 to 140 puts the high-glucose
\* annotation in the place of the borderline-glucose annotation, and every
\* other annotation of the Glucose=139 result is kept, in the same order.
C6_GlucoseReplacesBorderline ==
    GlucoseAtThreshold =>
        LET lo == assess_risk_factors(WithGlucose(139))
            hi == assess_risk_factors(WithGlucose(140))
        IN  /\ HighGlucose \in Range(hi)
            /\ HighGlucose \notin Range(lo)
            /\ BorderlineGlucose \in Range(lo)
            /\ BorderlineGlucose \notin Range(hi)
            /\ Range(lo) \ {BorderlineGlucose} \subseteq Range(hi)
            /\ Len(hi) = Len(lo)
            /\ \A i \in 1..Len(lo) :
                 hi[i] = IF lo[i] = BorderlineGlucose THEN HighGlucose ELSE lo[i]
            /\ (pc = "done" /\ prediction # None =>
                  FactorsShown = IF input_data[1].Glucose = 140 THEN hi ELSE lo)

C6_Witness ==
    /\ app = "diabetes"
    /\ pc = "done"
    /\ prediction # None
    /\ input_data[1].Glucose = 140
    /\ input_data[1].BMI = 320
    /\ FactorsShown = <<HighGlucose, Obesity>>

\* The field an annotation is about: 1 glucose, 2 BMI, 3 blood pressure,
\* 4 age, 5 family history.
Rank(t) ==
    CASE t \in {HighGlucose, BorderlineGlucose} -> 1
      [] t \in {Obesity, Overweight} -> 2
      [] t = ElevatedPressure -> 3
      [] t = AgeRisk -> 4
      [] t = FamilyHistory -> 5

InFieldOrder(l) == \A i, j \in 1..Len(l) : i < j => Rank(l[i]) < Rank(l[j])

\* l contains x, y and z, in that relative order.
InOrder3(l, x, y, z) ==
    \E i, j, k \in 1..Len(l) : i < j /\ j < k /\ l[i] = x /\ l[j] = y /\ l[k] = z

\* C7: the annotations of a diabetes record come in the order glucose,
\* BMI, blood pressure, age, family history, both as returned and as
\* rendered; with Glucose >= 140, BMI >= 30 and Age >= 45 the high-glucose,
\* obesity and age annotations are among them, in that order.
C7_AnnotationOrder ==
    (app = "diabetes" /\ input_data # None) =>
        LET d == input_data[1]
            l == assess_risk_factors(d)
        IN  /\ InFieldOrder(l)
            /\ (d.Glucose >= 140 /\ d.BMI >= 300 /\ d.Age >= 45 =>
                  InOrder3(l, HighGlucose, Obesity, AgeRisk))
            /\ (pc = "done" /\ prediction # None =>
                  /\ FactorsShown = l
                  /\ InFieldOrder(FactorsShown))

C7_Witness ==
    /\ app = "diabetes"
    /\ pc = "done"
    /\ prediction # None
    /\ input_data[1].Glucose = 150
    /\ input_data[1].BMI = 320
    /\ input_data[1].BloodPressure = 70
    /\ input_data[1].Age = 50
    /\ input_data[1].DiabetesPedigreeFunction = 80
    /\ FactorsShown = <<HighGlucose, Obesity, AgeRisk, FamilyHistory>>

\* A Titanic run has collected the record of a child traveling alone.
ChildAlone ==
    /\ app = "titanic"
    /\ input_data # None
    /\ input_data[1].Age < 18
    /\ input_data[1].SibSp + input_data[1].Parch = 0

\* C8: in the Titanic app, for a record with Age < 18 and SibSp + Parch = 0
\* a button press invokes the prediction path exactly once, and when the
\* predicted label is 1 the finished page shows "SURVIVED" with a factor
\* list that has the children factor and the traveling-alone factor.
C8_ChildAloneSurvived ==
    ChildAlone =>
        /\ predictCalls <= 1
        /\ (clicked /\ pc \in {"display", "done"} => predictCalls = 1)
        /\ (pc = "done" /\ prediction = <<1>> =>
              /\ El("success", "### Predicted: SURVIVED", 0) \in Range(screen)
              /\ El("error", "### Predicted: DID NOT SURVIVE", 0) \notin Range(screen)
              /\ "Children had better survival chances" \in Range(FactorsShown)
              /\ "Traveling alone affected survival chances" \in Range(FactorsShown))

C8_Witness ==
    /\ ChildAlone
    /\ input_data[1] = [Pclass |-> 1, Sex |-> "female", Age |-> 10, SibSp |-> 0,
                        Parch |-> 0, Fare |-> 5000, Embarked |-> "S"]
    /\ pc = "done"
    /\ predictCalls = 1
    /\ prediction = <<1>>
    /\ FactorsShown = <<"Higher chance of survival in 1st class",
                        "Being female significantly increased survival chances",
                        "Children had better survival chances",
                        "Traveling alone affected survival chances">>

\* The known output domain of the app's model.
KnownLabels == IF app = "penguins" THEN Species ELSE {0, 1}

\* C9: a label of the known output domain is mapped to its display, and
\* rendering a label the model returned never raises, whether the label
\* is in the known domain or not.
C9_RendererTotal ==
    prediction # None =>
        /\ raised = None
        /\ pc # "crashed"
        /\ (pc = "done" /\ prediction[1] \in KnownLabels =>
              Shows({"success", "error", "write"}))

\* C10: in the three apps model.predict is invoked at most once per run
\* and only in a run that a button press started; a run in which the
\* button is pressed invokes it exactly once, with a frame of one row,
\* the record collected in this run; a successful call hands the renderer
\* the one label the model returned.
C10_PredictOncePerPress ==
    app \in ThreeApps =>
        /\ predictCalls <= 1
        /\ (predictCalls = 1 => pressed /\ clicked)
        /\ (~pressed => predictCalls = 0 /\ predictArg = <<>> /\ outcome = None)
        /\ (clicked /\ pc \in {"display", "done", "crashed"} => predictCalls = 1)
        /\ (predictCalls = 1 =>
              /\ Len(predictArg) = 1
              /\ predictArg[1] = input_data[1])
        /\ (predictCalls = 1 /\ ~InferenceRaised =>
              /\ Len(prediction) = 1
              /\ prediction[1] = outcome[1].label)

C10_Witness ==
    /\ app \in ThreeApps
    /\ pc = "done"
    /\ pressed /\ clicked
    /\ predictCalls = 1
    /\ ~InferenceRaised
    /\ prediction # None

\* The record handed to inference in the current run.
InferenceRecord == predictArg[1]

\* C11: whenever one of the three apps has invoked inference, the record
\* has exactly the fields of the app's schema (6 for penguins, 7 for
\* titanic, 8 for diabetes) and every field lies within the declared range
\* of its control, on the scale of the control where it has a step.
C11_RecordWithinBounds ==
    (app \in ThreeApps /\ predictCalls >= 1) =>
        /\ Len(predictArg) = 1
        /\ LET r == InferenceRecord
           IN  CASE app = "penguins" ->
                      /\ DOMAIN r = {"bill_length_mm", "bill_depth_mm",
                                     "flipper_length_mm", "body_mass_g", "sex",
                                     "island"}
                      /\ Cardinality(DOMAIN r) = 6
                      /\ r.bill_length_mm \in 3000..6000
                      /\ r.bill_depth_mm \in 1300..2200
                      /\ r.flipper_length_mm \in 170..240
                      /\ r.body_mass_g \in 2700..6300
                      /\ (r.body_mass_g - 2700) % 100 = 0
                      /\ r.sex \in {"male", "female"}
                      /\ r.island \in {"Torgersen", "Biscoe", "Dream"}
                 [] app = "titanic" ->
                      /\ DOMAIN r = {"Pclass", "Sex", "Age", "SibSp", "Parch",
                                     "Fare", "Embarked"}
                      /\ Cardinality(DOMAIN r) = 7
                      /\ r.Pclass \in {1, 2, 3}
                      /\ r.Sex \in {"male", "female"}
                      /\ r.Age \in 0..100
                      /\ r.SibSp \in 0..8
                      /\ r.Parch \in 0..6
                      /\ r.Fare \in 0..60000
                      /\ r.Fare % 50 = 0
                      /\ r.Embarked \in {"C", "Q", "S"}
                 [] app = "diabetes" ->
                      /\ DOMAIN r = {"Pregnancies", "Glucose", "BloodPressure",
                                     "SkinThickness", "Insulin", "BMI",
                                     "DiabetesPedigreeFunction", "Age"}
                      /\ Cardinality(DOMAIN r) = 8
                      /\ r.Pregnancies \in 0..20
                      /\ r.Glucose \in 0..200
                      /\ r.BloodPressure \in 0..200
                      /\ r.SkinThickness \in 0..100
                      /\ r.Insulin \in 0..846
                      /\ r.BMI \in 0..700
                      /\ r.DiabetesPedigreeFunction \in 0..250
                      /\ r.Age \in 0..120

\* Inference has run on a Titanic record whose Age and Fare come from
\* entries above the range of their controls.
C11_Witness ==
    /\ app = "titanic"
    /\ pc = "done"
    /\ predictCalls = 1
    /\ prediction # None
    /\ InferenceRecord.Age = 100
    /\ InferenceRecord.Fare = 60000
    /\ InferenceRecord.SibSp = 8
    /\ InferenceRecord.Parch = 6

\* The lines of an annotation list that are about field k.
FieldNotes(l, k) == SelectSeq(l, LAMBDA t : Rank(t) = k)

\* Diabetes records to compare against: every field on either side of the
\* thresholds of its rule.
DiabetesContrast ==
    [Pregnancies : {0}, Glucose : {85, 180}, BloodPressure : {60, 110},
     SkinThickness : {20}, Insulin : {79}, BMI : {200, 350},
     DiabetesPedigreeFunction : {32, 120}, Age : {30, 60}]

\* The rule of field k is satisfied by record d.
RuleSatisfied(d, k) ==
    CASE k = 1 -> d.Glucose >= 100
      [] k = 2 -> d.BMI >= 250
      [] k = 3 -> d.BloodPressure >= 90
      [] k = 4 -> d.Age >= 45
      [] k = 5 -> d.DiabetesPedigreeFunction >= 80

\* Record c with field k taken from record d.
WithField(c, d, k) ==
    CASE k = 1 -> [c EXCEPT !.Glucose = d.Glucose]
      [] k = 2 -> [c EXCEPT !.BMI = d.BMI]
      [] k = 3 -> [c EXCEPT !.BloodPressure = d.BloodPressure]
      [] k = 4 -> [c EXCEPT !.Age = d.Age]
      [] k = 5 -> [c EXCEPT !.DiabetesPedigreeFunction = d.DiabetesPedigreeFunction]

\* The input a Titanic factor is about: 1 class, 2 sex, 3 age, 4 family
\* size.
FactorKind(t) ==
    CASE t \in Range(class_risk) -> 1
      [] t \in {"Being female significantly increased survival chances",
                "Being male significantly decreased survival chances"} -> 2
      [] t = "Children had better survival chances" -> 3
      [] t \in {"Traveling alone affected survival chances",
                "Large family groups had more difficulty staying together"} -> 4

FactorsOfKind(l, k) == SelectSeq(l, LAMBDA t : FactorKind(t) = k)

\* Titanic records to compare against; several of them share a family
\* size with different SibSp and Parch.
TitanicContrast ==
    [Pclass : {1, 3}, Sex : {"male", "female"}, Age : {5, 40},
     SibSp : {0, 4}, Parch : {0, 4}, Fare : {5000}, Embarked : {"S"}]

\* The input of factor kind k is the same in records c and d.
SameFactorInput(c, d, k) ==
    CASE k = 1 -> c.Pclass = d.Pclass
      [] k = 2 -> c.Sex = d.Sex
      [] k = 3 -> c.Age = d.Age
      [] k = 4 -> c.SibSp + c.Parch = d.SibSp + d.Parch

\* Record c with the input of factor kind k taken from record d.
WithFactorInput(c, d, k) ==
    CASE k = 1 -> [c EXCEPT !.Pclass = d.Pclass]
      [] k = 2 -> [c EXCEPT !.Sex = d.Sex]
      [] k = 3 -> [c EXCEPT !.Age = d.Age]
      [] k = 4 -> c

\* C12: the annotation assess_risk_factors gives for a field is the same
\* in any two records that agree on the field, whatever their other
\* fields, and a field contributes one line if its rule is satisfied and
\* none otherwise; in the Titanic factor list the class, sex, age and
\* family-size factors are the same in any two records that agree on
\* Pclass, Sex, Age, SibSp + Parch respectively.  Records are compared
\* when the button has been pressed on them; the rendered list is the
\* list so built.
C12_RulesIndependent ==
    /\ (app = "diabetes" /\ input_data # None) =>
          LET d == input_data[1]
              l == assess_risk_factors(d)
          IN  /\ \A k \in 1..5 :
                   /\ Len(FieldNotes(l, k)) = IF RuleSatisfied(d, k) THEN 1 ELSE 0
                   /\ (pc = "predict" =>
                         \A c \in DiabetesContrast :
                            FieldNotes(assess_risk_factors(WithField(c, d, k)), k)
                                = FieldNotes(l, k))
              /\ Len(l) = Cardinality({k \in 1..5 : RuleSatisfied(d, k)})
              /\ (pc = "done" /\ prediction # None => FactorsShown = l)
    /\ (app = "titanic" /\ input_data # None) =>
          LET d == input_data[1]
              l == titanic_factors(d)
          IN  /\ (pc = "predict" =>
                    \A k \in 1..4 : \A c \in TitanicContrast :
                       LET e == WithFactorInput(c, d, k)
                       IN  SameFactorInput(e, d, k) =>
                              FactorsOfKind(titanic_factors(e), k)
                                  = FactorsOfKind(l, k))
              /\ Len(FactorsOfKind(l, 1)) = 1
              /\ Len(FactorsOfKind(l, 2)) = 1
              /\ Len(FactorsOfKind(l, 3)) = (IF d.Age < 18 THEN 1 ELSE 0)
              /\ Len(FactorsOfKind(l, 4)) <= 1
              /\ (pc = "done" /\ prediction # None /\ raised = None =>
                    FactorsShown = l)

\* A diabetes page shows the age annotation next to the elevated
\* blood-pressure annotation: two satisfied rules, one line each.
C12_Witness ==
    /\ app = "diabetes"
    /\ pc = "done"
    /\ prediction # None
    /\ input_data[1].BloodPressure >= 90
    /\ input_data[1].Age >= 45
    /\ input_data[1].Glucose < 100
    /\ input_data[1].BMI < 250
    /\ input_data[1].DiabetesPedigreeFunction < 80
    /\ FactorsShown = <<ElevatedPressure, AgeRisk>>

\* C13: in the titanic and diabetes apps the result of make_prediction is
\* a label with its probability pair or (None, None), never one without
\* the other; it is (None, None) when predict succeeded and predict_proba
\* raised; and display_results never reads probability[1] of a null
\* probability, so no TypeError leaves main().
C13_NoPartialResult ==
    (app \in {"titanic", "diabetes"} /\ outcome # None) =>
        /\ (prediction = None <=> probability = None)
        /\ (prediction # None =>
              /\ prediction = <<outcome[1].label>>
              /\ probability = <<outcome[1].proba>>
              /\ Len(probability[1]) = 2)
        /\ (outcome[1].proba_raises => prediction = None /\ probability = None)
        /\ raised # <<"TypeError">>
        /\ (Shows({"metric"}) => prediction # None /\ probability # None)
        /\ pc # "crashed"

\* A diabetes run in which predict returned and predict_proba raised has
\* finished with a null result.
C13_Witness ==
    /\ app = "diabetes"
    /\ pc = "done"
    /\ outcome # None
    /\ ~outcome[1].predict_raises
    /\ outcome[1].proba_raises
    /\ prediction = None
    /\ probability = None
    /\ raised = None

====
